---- MODULE Spec2Model ----
(***************************************************************************)
(* Employment-history chronology engine of ats-checker.js.                 *)
(*                                                                         *)
(* A JavaScript Date is modelled as an integer instant, three instants per  *)
(* calendar month: 3*m is the first millisecond of month m (what           *)
(* new Date(year, month) yields), 3*m+1 and 3*m+2 are two later instants   *)
(* of the same month (what new Date() yields, the clock possibly having    *)
(* advanced between two calls).  The month index m is year*12 + month, so  *)
(* (endYear-startYear)*12 + (endMonth-startMonth) is the difference of two *)
(* month indices.                                                          *)
(* A JavaScript string that the code inspects (a job title) is a sequence  *)
(* of one-character strings; a company name, which the code only compares, *)
(* is a TLA+ string.  null and the empty string are both falsy in every    *)
(* test the code makes on jobTitle and company: NoTitle, NoCompany.        *)
(***************************************************************************)
EXTENDS Integers, Sequences, FiniteSets, TLC

VARIABLES pc, text, periods, result, jobDescription, embedding, output

vars == <<pc, text, periods, result, jobDescription, embedding, output>>

NoTitle == <<>>

NoCompany == ""

NoText == <<>>

NoResult == [none |-> TRUE]

\* no embedding requested, nothing written to the console
NoEmbeddings == [resume |-> [state |-> "unrequested"], jd |-> [state |-> "unrequested"]]

\* computeATSScore is not part of the behaviour
NotRun == jobDescription = NoText /\ embedding = NoEmbeddings /\ output = <<>>

-----------------------------------------------------------------------------
(* Dates *)

\* new Date(year, month) with m = year*12 + month
NewDate(m) == 3 * m

\* new Date(), read in month m after c clock advances (c = 1 or 2)
Now(m, c) == 3 * m + c

\* the month index of year y, month mm (1..12, as written in a resume)
Month(y, mm) == y * 12 + (mm - 1)

\* date.getFullYear()*12 + date.getMonth()
MonthIndex(d) == d \div 3

calculateDurationInclusive(startDate, endDate) ==
    MonthIndex(endDate) - MonthIndex(startDate) + 1

calculateDuration(startDate, endDate) == MonthIndex(endDate) - MonthIndex(startDate)

Period(s, e, title, company) ==
    [startDate |-> s, endDate |-> e, duration |-> calculateDuration(s, e),
     jobTitle |-> title, company |-> company]

-----------------------------------------------------------------------------
(* Sequences *)

Range(s) == {s[i] : i \in 1..Len(s)}

\* Array.prototype.sort with the comparator key[a] - key[b]: ascending and
\* stable; key[i] is the key of s[i]
SortAscending(s, key) ==
    LET n == Len(s)
        rank(i) == Cardinality({j \in 1..n :
                        \/ key[j] < key[i]
                        \/ key[j] = key[i] /\ j < i}) + 1
    IN  [p \in 1..n |-> s[CHOOSE i \in 1..n : rank(i) = p]]

\* sort((a, b) => a.startDate - b.startDate)
ByStartDate(ps) == SortAscending(ps, [i \in 1..Len(ps) |-> ps[i].startDate])

\* sort((a, b) => b.startDate - a.startDate)
ByStartDateDescending(ps) == SortAscending(ps, [i \in 1..Len(ps) |-> 0 - ps[i].startDate])

\* sort((a, b) => a.endDate - b.endDate)
ByEndDate(ps) == SortAscending(ps, [i \in 1..Len(ps) |-> ps[i].endDate])

\* sort((a, b) => b.duration - a.duration)
ByDurationDescending(ps) == SortAscending(ps, [i \in 1..Len(ps) |-> 0 - ps[i].duration])

RECURSIVE Flatten(_)
Flatten(ss) == IF ss = <<>> THEN <<>> ELSE Head(ss) \o Flatten(Tail(ss))

-----------------------------------------------------------------------------
(* deduplicateEmploymentPeriods *)

Unknown == <<"u", "n", "k", "n", "o", "w", "n">>

DedupKey(period) ==
    <<period.startDate, period.endDate,
      IF period.jobTitle # NoTitle THEN period.jobTitle ELSE Unknown>>

\* the first entry of a key always kept
PrefersNewNever(existing, period) == FALSE

\* (!existing.jobTitle || !existing.company) && (period.jobTitle && period.company)
PrefersNew(existing, period) ==
    /\ (existing.jobTitle = NoTitle \/ existing.company = NoCompany)
    /\ (period.jobTitle # NoTitle /\ period.company # NoCompany)

\* the Map uniqueByDates as a sequence of values in insertion order
RECURSIVE UniqueByDates(_, _)
UniqueByDates(ps, map) ==
    IF ps = <<>> THEN map
    ELSE LET period == Head(ps)
             hit == {i \in 1..Len(map) : DedupKey(map[i]) = DedupKey(period)}
         IN  IF hit # {}
             THEN LET i == CHOOSE i \in hit : TRUE
                  IN  IF PrefersNew(map[i], period)
                      THEN UniqueByDates(Tail(ps), [map EXCEPT ![i] = period])
                      ELSE UniqueByDates(Tail(ps), map)
             ELSE UniqueByDates(Tail(ps), Append(map, period))

CompanyKey(period) == IF period.company # NoCompany THEN period.company ELSE "unknown"

\* the keys of periodsByCompany in insertion order
RECURSIVE CompanyOrder(_, _)
CompanyOrder(ps, seen) ==
    IF ps = <<>> THEN seen
    ELSE IF CompanyKey(Head(ps)) \in Range(seen)
         THEN CompanyOrder(Tail(ps), seen)
         ELSE CompanyOrder(Tail(ps), Append(seen, CompanyKey(Head(ps))))

PeriodsOfCompany(ps, c) == SelectSeq(ps, LAMBDA p : CompanyKey(p) = c)

ContainedInStrictStart(current, other) ==
    current.startDate > other.startDate /\ current.endDate <= other.endDate

ContainedIn(current, other) ==
    current.startDate >= other.startDate /\ current.endDate <= other.endDate

KeepUncontainedByPrevious(companyPeriods) ==
    IF Len(companyPeriods) <= 1 THEN companyPeriods
    ELSE LET sorted == ByDurationDescending(companyPeriods)
             n == Len(sorted)
             isContained(i) == i > 1 /\ ContainedIn(sorted[i], sorted[i-1])
             keepIdx == {i \in 1..n : ~isContained(i)}
             pick[k \in 0..n] ==
                 IF k = 0 THEN <<>>
                 ELSE IF k \in keepIdx THEN Append(pick[k-1], sorted[k]) ELSE pick[k-1]
         IN  pick[n]

KeepUncontained(companyPeriods) ==
    IF Len(companyPeriods) <= 1 THEN companyPeriods
    ELSE LET sorted == ByDurationDescending(companyPeriods)
             n == Len(sorted)
             isContained(i) == \E j \in 1..n : i # j /\ ContainedIn(sorted[i], sorted[j])
             keepIdx == {i \in 1..n : ~isContained(i)}
             pick[k \in 0..n] ==
                 IF k = 0 THEN <<>>
                 ELSE IF k \in keepIdx THEN Append(pick[k-1], sorted[k]) ELSE pick[k-1]
         IN  pick[n]

deduplicateEmploymentPeriods(ps) ==
    IF Len(ps) <= 1 THEN ps
    ELSE LET unique == UniqueByDates(ps, <<>>)
             companies == CompanyOrder(unique, <<>>)
         IN  Flatten([k \in 1..Len(companies) |->
                        KeepUncontained(PeriodsOfCompany(unique, companies[k]))])

-----------------------------------------------------------------------------
(* calculateTotalExperience, identifyCareerGaps *)

\* the loop body of calculateTotalExperience on one period;
\* acc = [totalMonths, currentEndDate]
AddAllOfPeriod(acc, period) ==
    [totalMonths |-> acc.totalMonths + calculateDuration(period.startDate, period.endDate),
     currentEndDate |-> period.endDate]

AddPeriodNoTail(acc, period) ==
    IF period.startDate > acc.currentEndDate
    THEN [totalMonths |-> acc.totalMonths
                            + calculateDuration(period.startDate, period.endDate),
          currentEndDate |-> period.endDate]
    ELSE acc

AddPeriod(acc, period) ==
    IF period.startDate > acc.currentEndDate
    THEN [totalMonths |-> acc.totalMonths
                            + calculateDuration(period.startDate, period.endDate),
          currentEndDate |-> period.endDate]
    ELSE IF period.endDate > acc.currentEndDate
         THEN [totalMonths |-> acc.totalMonths
                                 + calculateDuration(acc.currentEndDate, period.endDate),
               currentEndDate |-> period.endDate]
         ELSE acc

calculateTotalExperience(employmentPeriods) ==
    IF Len(employmentPeriods) = 0 THEN 0
    ELSE LET sortedPeriods == ByStartDate(employmentPeriods)
             n == Len(sortedPeriods)
             loop[k \in 0..n] ==
                 IF k = 0
                 THEN [totalMonths |-> 0, currentEndDate |-> sortedPeriods[1].startDate]
                 ELSE AddPeriod(loop[k-1], sortedPeriods[k])
         IN  loop[n].totalMonths

IsSignificantGapAboveThree(gapDuration) == gapDuration > 3

IsSignificantGapOneMonth(gapDuration) == gapDuration >= 1

\* "Consider gaps of 3+ months significant"
IsSignificantGap(gapDuration) == gapDuration >= 3

identifyCareerGaps(employmentPeriods) ==
    IF Len(employmentPeriods) <= 1 THEN <<>>
    ELSE LET sortedPeriods == ByEndDate(employmentPeriods)
             n == Len(sortedPeriods)
             gapDuration(i) == calculateDuration(sortedPeriods[i].endDate,
                                                 sortedPeriods[i+1].startDate)
             loop[k \in 0..(n-1)] ==
                 IF k = 0 THEN <<>>
                 ELSE IF IsSignificantGap(gapDuration(k))
                      THEN Append(loop[k-1],
                                  [startDate |-> sortedPeriods[k].endDate,
                                   endDate |-> sortedPeriods[k+1].startDate,
                                   durationMonths |-> gapDuration(k)])
                      ELSE loop[k-1]
         IN  loop[n-1]

-----------------------------------------------------------------------------
(* Job titles as character sequences *)

Space == <<" ">>

LcJunior == <<"j", "u", "n", "i", "o", "r">>

LcSenior == <<"s", "e", "n", "i", "o", "r">>

LcLead == <<"l", "e", "a", "d">>

LcPrincipal == <<"p", "r", "i", "n", "c", "i", "p", "a", "l">>

LcManager == <<"m", "a", "n", "a", "g", "e", "r">>

LcDirector == <<"d", "i", "r", "e", "c", "t", "o", "r">>

LcVp == <<"v", "p">>

LcCto == <<"c", "t", "o">>

LcDeveloper == <<"d", "e", "v", "e", "l", "o", "p", "e", "r">>

UcJunior == <<"J", "u", "n", "i", "o", "r">>

UcSenior == <<"S", "e", "n", "i", "o", "r">>

UcDeveloper == <<"D", "e", "v", "e", "l", "o", "p", "e", "r">>

\* String.prototype.includes: case-sensitive substring test
Includes(str, sub) ==
    \E i \in 0..(Len(str) - Len(sub)) : SubSeq(str, i + 1, i + Len(sub)) = sub

-----------------------------------------------------------------------------
(* analyzeCareerProgression *)

\* Object.entries(titleLevels), in insertion order
titleLevels ==
    << <<LcJunior, 1>>, <<<<>>, 2>>, <<LcSenior, 3>>, <<LcLead, 4>>,
       <<LcPrincipal, 5>>, <<LcManager, 5>>, <<LcDirector, 6>>, <<LcVp, 7>>,
       <<LcCto, 8>> >>

Max(a, b) == IF a >= b THEN a ELSE b

\* period.jobTitle.includes(levelTitle)
TitleMatches(jobTitle, levelTitle) == Includes(jobTitle, levelTitle)

LevelScore(jobTitle) ==
    LET n == Len(titleLevels)
        loop[k \in 0..n] ==
            IF k = 0 THEN 2
            ELSE IF TitleMatches(jobTitle, titleLevels[k][1])
                 THEN Max(loop[k-1], titleLevels[k][2])
                 ELSE loop[k-1]
    IN  loop[n]

TitleProgression(employmentPeriods) ==
    LET titled == SelectSeq(employmentPeriods, LAMBDA p : p.jobTitle # NoTitle)
        entries == [i \in 1..Len(titled) |->
                      [title |-> titled[i].jobTitle,
                       level |-> LevelScore(titled[i].jobTitle),
                       date |-> titled[i].startDate]]
    IN  SortAscending(entries, [i \in 1..Len(entries) |-> entries[i].date])

\* the levels compared with the first entry instead of the previous one
IncreasesOverFirst(tp) == Cardinality({i \in 1..(Len(tp) - 1) : tp[i+1].level > tp[1].level})

Increases(tp) == Cardinality({i \in 1..(Len(tp) - 1) : tp[i+1].level > tp[i].level})

Decreases(tp) == Cardinality({i \in 1..(Len(tp) - 1) : tp[i+1].level < tp[i].level})

\* p.duration < 12
IsShortTerm(p) == p.duration < 12

ShortTermJobs(employmentPeriods) ==
    Len(SelectSeq(employmentPeriods, IsShortTerm))

JobHoppingPatternNeedsThreeShort(employmentPeriods) ==
    ShortTermJobs(employmentPeriods) >= 3

\* shortTermJobs / length >= 0.5, as 2 * shortTermJobs >= length
JobHoppingPattern(employmentPeriods) ==
    \/ ShortTermJobs(employmentPeriods) >= 3
    \/ /\ Len(employmentPeriods) >= 3
       /\ 2 * ShortTermJobs(employmentPeriods) >= Len(employmentPeriods)

RECURSIVE SumDuration(_)
SumDuration(ps) == IF ps = <<>> THEN 0 ELSE Head(ps).duration + SumDuration(Tail(ps))

\* averageJobDuration is the quotient total / count, kept as the pair
InsufficientDataOnlyWhenEmpty(employmentPeriods) == Len(employmentPeriods) < 1

\* employmentPeriods.length <= 1
InsufficientData(employmentPeriods) == Len(employmentPeriods) <= 1

analyzeCareerProgression(employmentPeriods) ==
    IF InsufficientData(employmentPeriods)
    THEN [hasProgression |-> FALSE,
          pattern |-> "Insufficient data",
          averageJobDuration |->
              [total |-> IF Len(employmentPeriods) = 1
                         THEN employmentPeriods[1].duration ELSE 0,
               count |-> 1]]
    ELSE LET titlesAvailable ==
                 Len(SelectSeq(employmentPeriods, LAMBDA p : p.jobTitle # NoTitle))
             tp == TitleProgression(employmentPeriods)
             upward == titlesAvailable >= 2 /\ Increases(tp) > Decreases(tp)
             varied == titlesAvailable >= 2 /\ Increases(tp) < Decreases(tp)
             base == IF upward THEN "Upward" ELSE IF varied THEN "Varied" ELSE "Stable"
         IN  [hasProgression |-> upward,
              pattern |-> IF JobHoppingPattern(employmentPeriods)
                          THEN base \o ", Frequent changes" ELSE base,
              averageJobDuration |->
                  [total |-> SumDuration(employmentPeriods),
                   count |-> Len(employmentPeriods)]]

-----------------------------------------------------------------------------
(* analyzeEmploymentHistory, from the deduplication on *)

\* (totalExperience / 12).toFixed(1), in tenths of a year
TotalExperienceTenths(totalExperience) == (10 * totalExperience + 6) \div 12

Chronology(employmentPeriods) ==
    LET uniquePeriods == ByStartDateDescending(
                             deduplicateEmploymentPeriods(employmentPeriods))
        totalExperience == calculateTotalExperience(uniquePeriods)
    IN  [employmentPeriods |-> uniquePeriods,
         totalExperience |-> totalExperience,
         totalExperienceYears |-> TotalExperienceTenths(totalExperience),
         careerGaps |-> identifyCareerGaps(uniquePeriods),
         careerProgression |-> analyzeCareerProgression(uniquePeriods)]

-----------------------------------------------------------------------------
(* Input domains *)

ListsOver(S, n) == UNION {[1..k -> S] : k \in 0..n}

\* start and end are first instants of months; start <= end
MonthIntervals(months) ==
    {iv \in {<<NewDate(m1), NewDate(m2)>> : m1 \in months, m2 \in months} : iv[1] <= iv[2]}

MaxDedupMonth == 1

MaxDedupPeriods == 3

\* one title with and without a company: the entries the first phase collapses
SameTitlePeriods ==
    {Period(iv[1], iv[2], LcVp, c) :
        iv \in MonthIntervals(0..MaxDedupMonth), c \in {"CompanyA", NoCompany}}

\* one company under two titles: the entries only the second phase compares
SameCompanyPeriods ==
    {Period(iv[1], iv[2], t, "CompanyA") :
        iv \in MonthIntervals(0..MaxDedupMonth), t \in {LcVp, LcLead}}

\* Jan 2018 - Dec 2019 and Mar 2018 - Jun 2018, both at CompanyA
ScenarioLong(t) ==
    Period(NewDate(Month(2018, 1)), NewDate(Month(2019, 12)), t, "CompanyA")

ScenarioContained(t) ==
    Period(NewDate(Month(2018, 3)), NewDate(Month(2018, 6)), t, "CompanyA")

ScenarioLists ==
    UNION {{<<ScenarioLong(t1), ScenarioContained(t2)>>,
            <<ScenarioContained(t2), ScenarioLong(t1)>>} :
              t1 \in {LcVp, LcLead}, t2 \in {LcVp, LcLead}}

-----------------------------------------------------------------------------
(* The Deduplicator on every bounded input list, then on its own output;   *)
(* and the chronology analysis of the same list                            *)

InitDedup ==
    /\ pc = "input"
    /\ text = NoText
    /\ periods \in ListsOver(SameTitlePeriods, MaxDedupPeriods)
                     \cup ListsOver(SameCompanyPeriods, MaxDedupPeriods)
                     \cup ScenarioLists
    /\ result = NoResult
    /\ NotRun

Deduplicate ==
    /\ pc = "input"
    /\ result' = [once |-> deduplicateEmploymentPeriods(periods)]
    /\ pc' = "once"
    /\ UNCHANGED <<text, periods, jobDescription, embedding, output>>

DeduplicateAgain ==
    /\ pc = "once"
    /\ result' = [once |-> result.once,
                  twice |-> deduplicateEmploymentPeriods(result.once)]
    /\ pc' = "twice"
    /\ UNCHANGED <<text, periods, jobDescription, embedding, output>>

AnalyzePeriods ==
    /\ pc = "input"
    /\ result' = Chronology(periods)
    /\ pc' = "analyzed"
    /\ UNCHANGED <<text, periods, jobDescription, embedding, output>>

NextDedup == Deduplicate \/ DeduplicateAgain \/ AnalyzePeriods

SpecDedup == InitDedup /\ [][NextDedup]_vars

-----------------------------------------------------------------------------
(* Claims on the Deduplicator *)

SameGroup(p, q) == CompanyKey(p) = CompanyKey(q)

LiesInside(p, q) == p.startDate >= q.startDate /\ p.endDate <= q.endDate

NoPeriodInsideAnother(ps) ==
    \A i, j \in 1..Len(ps) :
        (i # j /\ SameGroup(ps[i], ps[j])) => ~LiesInside(ps[i], ps[j])

\* C1: the output of deduplicateEmploymentPeriods, and the employmentPeriods list
\* of analyzeEmploymentHistory, hold no two distinct periods of one company group
\* (company, or "unknown" when absent) with one period's [start, end] inside the
\* other's.
C1_NoContainedPeriod ==
    /\ pc = "once" => NoPeriodInsideAnother(result.once)
    /\ pc = "twice" => NoPeriodInsideAnother(result.twice)
    /\ pc = "analyzed" => NoPeriodInsideAnother(result.employmentPeriods)

\* an input where a period lies inside another entry of its group, and an
\* output that still holds two periods of one group
C1_Witness ==
    /\ pc = "once"
    /\ ~NoPeriodInsideAnother(periods)
    /\ \E i, j \in 1..Len(result.once) : i # j /\ SameGroup(result.once[i], result.once[j])

\* C2: deduplicating the Deduplicator's output again yields the same set of
\* periods.
C2_Idempotent ==
    pc = "twice" => Range(result.twice) = Range(result.once)

\* the first run removed something, and the second run had at least two periods
\* to work on
C2_Witness ==
    /\ pc = "twice"
    /\ Len(result.once) < Len(periods)
    /\ Len(result.once) >= 2

\* C17: when the input of deduplicateEmploymentPeriods holds two periods of one
\* company with one interval inside the other (two periods with the same
\* interval and different titles included), the output retains a period of that
\* company covering the containing interval, and a non-empty input gives a
\* non-empty output.
C17_ContainingPeriodSurvives ==
    pc = "once" =>
        /\ \A i, j \in 1..Len(periods) :
              (/\ i # j
               /\ periods[i].company # NoCompany
               /\ periods[i].company = periods[j].company
               /\ LiesInside(periods[i], periods[j]))
              => \E k \in 1..Len(result.once) :
                    /\ result.once[k].company = periods[j].company
                    /\ LiesInside(periods[j], result.once[k])
        /\ Len(periods) > 0 => Len(result.once) > 0

Populated(p) == p.jobTitle # NoTitle /\ p.company # NoCompany

\* the entries phase 1 keeps for the key of p
SurvivorsOfKey(ps, p) ==
    {k \in 1..Len(UniqueByDates(ps, <<>>)) :
        DedupKey(UniqueByDates(ps, <<>>)[k]) = DedupKey(p)}

C6_TotalIs24 ==
    (pc = "analyzed" /\ periods \in ScenarioLists) =>
        /\ \E t \in {LcVp, LcLead} : result.employmentPeriods = <<ScenarioLong(t)>>
        /\ result.totalExperience = 24

\* C6 amended: the contained period is removed and the total is 23 months, the
\* month difference (2019-2018)*12 + (11-0) of the surviving period.
C6_TotalIs23 ==
    (pc = "analyzed" /\ periods \in ScenarioLists) =>
        /\ \E t \in {LcVp, LcLead} : result.employmentPeriods = <<ScenarioLong(t)>>
        /\ result.totalExperience = 23

C6_Witness ==
    /\ pc = "analyzed"
    /\ periods \in ScenarioLists
    /\ Len(result.employmentPeriods) = 1

-----------------------------------------------------------------------------
(* The Interval Aggregator on every bounded list of valid periods *)

MaxExpMonth == 3

MaxExpPeriods == 3

\* an end is the first instant of a month, or the clock read in the last month
\* when the text said present/current
ExperienceIntervals ==
    MonthIntervals(0..MaxExpMonth)
        \cup {<<NewDate(m), Now(MaxExpMonth, 1)>> : m \in 0..MaxExpMonth}

ExperiencePeriods ==
    {Period(iv[1], iv[2], NoTitle, NoCompany) : iv \in ExperienceIntervals}

\* Mar 2018 - Dec 2019, and Jan 2020 - present read in Jan 2020 or in Nov 2026
AdjacentEarlier ==
    Period(NewDate(Month(2018, 3)), NewDate(Month(2019, 12)), NoTitle, NoCompany)

AdjacentLater(now) == Period(NewDate(Month(2020, 1)), now, NoTitle, NoCompany)

AdjacentLists ==
    UNION {{<<AdjacentLater(now), AdjacentEarlier>>,
            <<AdjacentEarlier, AdjacentLater(now)>>} :
              now \in {Now(Month(2020, 1), 1), Now(Month(2026, 11), 1)}}

\* two short jobs a year apart, and a long job at another company over both
EnclosedJobs ==
    {Period(NewDate(Month(2010, 1)), NewDate(Month(2011, 1)), NoTitle, "CompanyA"),
     Period(NewDate(Month(2012, 1)), NewDate(Month(2013, 1)), NoTitle, "CompanyB")}

EnclosingJob ==
    Period(NewDate(Month(2009, 1)), NewDate(Month(2020, 1)), NoTitle, "CompanyC")

EnclosedLists ==
    {ps \in [1..3 -> EnclosedJobs \cup {EnclosingJob}] : Range(ps) = EnclosedJobs \cup {EnclosingJob}}

InitExperience ==
    /\ pc = "input"
    /\ text = NoText
    /\ periods \in ListsOver(ExperiencePeriods, MaxExpPeriods) \cup AdjacentLists
                     \cup EnclosedLists
    /\ result = NoResult
    /\ NotRun

CalculateTotal ==
    /\ pc = "input"
    /\ result' = [totalMonths |-> calculateTotalExperience(periods)]
    /\ pc' = "total"
    /\ UNCHANGED <<text, periods, jobDescription, embedding, output>>

IdentifyGaps ==
    /\ pc = "total"
    /\ result' = [totalMonths |-> result.totalMonths,
                  gaps |-> identifyCareerGaps(periods)]
    /\ pc' = "gaps"
    /\ UNCHANGED <<text, periods, jobDescription, embedding, output>>

NextExperience == CalculateTotal \/ IdentifyGaps

SpecExperience == InitExperience /\ [][NextExperience]_vars

-----------------------------------------------------------------------------
(* Claims on the Interval Aggregator *)

StartMonth(p) == MonthIndex(p.startDate)

EndMonth(p) == MonthIndex(p.endDate)

\* two periods overlap when some month-to-month span lies in both
Overlap(p, q) ==
    Max(StartMonth(p), StartMonth(q)) < (IF EndMonth(p) <= EndMonth(q)
                                         THEN EndMonth(p) ELSE EndMonth(q))

SomeOverlap(ps) == \E i, j \in 1..Len(ps) : i # j /\ Overlap(ps[i], ps[j])

\* C3: the total is at most the sum of the periods' durations, and equals it
\* exactly when no two periods of the list overlap.
C3_TotalAtMostSum ==
    pc \in {"total", "gaps"} =>
        /\ result.totalMonths <= SumDuration(periods)
        /\ (result.totalMonths = SumDuration(periods)) <=> ~SomeOverlap(periods)

\* three periods, two of them overlapping: the total is below the sum
C3_Witness ==
    /\ pc = "total"
    /\ Len(periods) = 3
    /\ SomeOverlap(periods)
    /\ 0 < result.totalMonths
    /\ result.totalMonths < SumDuration(periods)

\* the months m such that some period runs from month m to month m+1
CoveredMonths(ps) ==
    UNION {StartMonth(ps[i])..(EndMonth(ps[i]) - 1) : i \in 1..Len(ps)}

\* C4: the total is the number of months covered by the union of the periods, a
\* month covered by several periods counting once, whatever the order of the list
\* (a period of duration d covers d months, from its start month on).
C4_TotalIsUnion ==
    pc \in {"total", "gaps"} => result.totalMonths = Cardinality(CoveredMonths(periods))

\* a list not sorted by start date in which a later entry overlaps an earlier one
C4_Witness ==
    /\ pc = "total"
    /\ \E i, j \in 1..Len(periods) :
          /\ i < j
          /\ periods[j].startDate < periods[i].startDate
          /\ Overlap(periods[i], periods[j])
    /\ result.totalMonths > 0

Separation(earlier, later) == StartMonth(later) - EndMonth(earlier)

GapBetween(earlier, later) ==
    [startDate |-> earlier.endDate, endDate |-> later.startDate,
     durationMonths |-> Separation(earlier, later)]

ExpectedGaps(ps) ==
    LET sorted == ByEndDate(ps)
        sig == {k \in 1..(Len(sorted) - 1) : Separation(sorted[k], sorted[k+1]) >= 3}
    IN  {GapBetween(sorted[k], sorted[k+1]) : k \in sig}

\* C5: of two periods where the earlier ends before the later starts, a separation
\* of 2 months gives no gap and one of 3 months gives exactly one gap of 3 months
\* from the earlier end to the later start; in any list a consecutive pair, in
\* order of end date, gives a gap exactly when its separation is 3 months or more.
C5_GapThreshold ==
    pc = "gaps" =>
        /\ \A i, j \in 1..Len(periods) :
              (Len(periods) = 2 /\ i # j /\ periods[i].endDate < periods[j].startDate) =>
                  /\ Separation(periods[i], periods[j]) = 2 => result.gaps = <<>>
                  /\ Separation(periods[i], periods[j]) = 3 =>
                         result.gaps = <<GapBetween(periods[i], periods[j])>>
                  /\ (result.gaps # <<>>) <=> Separation(periods[i], periods[j]) >= 3
        /\ Range(result.gaps) = ExpectedGaps(periods)
        /\ Len(result.gaps) = Cardinality(ExpectedGaps(periods))

\* two periods three months apart, the later given first
C5_Witness ==
    /\ pc = "gaps"
    /\ Len(periods) = 2
    /\ periods[2].endDate < periods[1].startDate
    /\ Separation(periods[2], periods[1]) = 3
    /\ Len(result.gaps) = 1

Adjacent(earlier, later) == StartMonth(later) = EndMonth(earlier) + 1

\* C7: for two periods where the later starts in the month right after the earlier
\* ends (as Mar 2018 - Dec 2019 and Jan 2020 - present) there is no gap and the
\* total is the sum of the two durations.
C7_AdjacentPeriods ==
    pc = "gaps" =>
        \A i, j \in 1..Len(periods) :
            (Len(periods) = 2 /\ i # j /\ Adjacent(periods[i], periods[j])) =>
                /\ result.gaps = <<>>
                /\ result.totalMonths = periods[i].duration + periods[j].duration

C7_Witness ==
    /\ pc = "gaps"
    /\ periods \in AdjacentLists
    /\ periods[1].endDate = Now(Month(2026, 11), 1)
    /\ result.totalMonths = 21 + 82

\* the months strictly inside both spans: a gap and a job share some
GapInsideJob(gap, p) ==
    /\ MonthIndex(gap.startDate) < EndMonth(p)
    /\ StartMonth(p) < MonthIndex(gap.endDate)
    /\ MonthIndex(gap.startDate) < MonthIndex(gap.endDate)
    /\ StartMonth(p) < EndMonth(p)

\* C29: every reported career gap is a span without a job: on a list as the
\* Deduplicator leaves it (no period inside another of its company), jobs at
\* different companies overlapping or nested, no reported gap overlaps the
\* interior of any period of the list.
C29_GapsOutsideEmployment ==
    (pc = "gaps" /\ Range(deduplicateEmploymentPeriods(periods)) = Range(periods)) =>
        \A g \in 1..Len(result.gaps), i \in 1..Len(periods) :
            ~GapInsideJob(result.gaps[g], periods[i])

-----------------------------------------------------------------------------
(* The Progression Analyzer on bounded lists of periods *)

MaxJobs == 4

MaxTitledJobs == 3

\* a period of d months from January of year y
Job(y, d, title) ==
    Period(NewDate(Month(y, 1)), NewDate(Month(y, 1) + d), title, NoCompany)

\* short and long stints around the 12-month threshold, with and without a title
StintPeriods ==
    {Job(2020, d, t) : d \in {6, 11, 12}, t \in {NoTitle, LcSenior}}

JuniorDeveloper == UcJunior \o Space \o UcDeveloper

SeniorDeveloper == UcSenior \o Space \o UcDeveloper

LcSeniorDeveloper == LcSenior \o Space \o LcDeveloper

\* titles as a resume writes them, and lower-case ones
TitledPeriods ==
    {Job(y, 24, t) :
        y \in {2016, 2018, 2020},
        t \in {NoTitle, JuniorDeveloper, UcDeveloper, SeniorDeveloper,
               LcDeveloper, LcSeniorDeveloper}}

MaxLevelJobs == 2

\* lower-case titles holding one seniority keyword, or none
LevelPeriods ==
    {Job(y, 24, t) : y \in {2016, 2018}, t \in {LcJunior, LcDeveloper, LcDirector, LcVp}}

InitProgression ==
    /\ pc = "input"
    /\ text = NoText
    /\ periods \in ListsOver(StintPeriods, MaxJobs)
                     \cup ListsOver(TitledPeriods, MaxTitledJobs)
                     \cup ListsOver(LevelPeriods, MaxLevelJobs)
    /\ result = NoResult
    /\ NotRun

AnalyzeProgression ==
    /\ pc = "input"
    /\ result' = analyzeCareerProgression(periods)
    /\ pc' = "progression"
    /\ UNCHANGED <<text, periods, jobDescription, embedding, output>>

NextProgression == AnalyzeProgression

SpecProgression == InitProgression /\ [][NextProgression]_vars

-----------------------------------------------------------------------------
(* Claims on the Progression Analyzer *)

FrequentChanges(pattern) ==
    pattern \in {"Stable, Frequent changes", "Upward, Frequent changes",
                 "Varied, Frequent changes"}

\* the titles of the periods that start in 2016, 2018 and 2020
TitleOfYear(ps, y) ==
    {ps[i].jobTitle : i \in {k \in 1..Len(ps) : ps[k].startDate = NewDate(Month(y, 1))}}

JuniorToSenior(ps) ==
    /\ Len(ps) = 3
    /\ TitleOfYear(ps, 2016) = {JuniorDeveloper}
    /\ TitleOfYear(ps, 2018) = {UcDeveloper}
    /\ TitleOfYear(ps, 2020) = {SeniorDeveloper}

\* C8: three periods titled, in order of start date, "Junior Developer" (2016),
\* "Developer" (2018), "Senior Developer" (2020) give pattern "Upward" (before any
\* job-hopping suffix) and hasProgression = true.
C8_JuniorToSeniorIsUpward ==
    (pc = "progression" /\ JuniorToSenior(periods)) =>
        /\ result.pattern \in {"Upward", "Upward, Frequent changes"}
        /\ result.hasProgression = TRUE

ShortStints(ps) == Cardinality({i \in 1..Len(ps) : ps[i].duration < 12})

\* C9: ", Frequent changes" is appended to the pattern exactly when at least 3
\* periods last under 12 months, or the list has at least 3 periods and at least
\* half of them last under 12 months; four jobs of 6 months each are flagged.
C9_JobHoppingFlag ==
    pc = "progression" =>
        /\ FrequentChanges(result.pattern) <=>
              \/ ShortStints(periods) >= 3
              \/ Len(periods) >= 3 /\ 2 * ShortStints(periods) >= Len(periods)
        /\ (Len(periods) = 4 /\ \A i \in 1..4 : periods[i].duration = 6) =>
              FrequentChanges(result.pattern)

\* four jobs of 6 months each, flagged
C9_Witness ==
    /\ pc = "progression"
    /\ Len(periods) = 4
    /\ \A i \in 1..4 : periods[i].duration = 6
    /\ result.pattern = "Stable, Frequent changes"

BasePatterns == {"Stable", "Upward", "Varied"}

\* C11 as stated: for every list of periods, the empty list and a list of one
\* period included, the pattern is "Stable", "Upward" or "Varied", optionally
\* followed by ", Frequent changes".
C11_PatternIsOneOfThree ==
    pc = "progression" =>
        result.pattern \in BasePatterns \/ FrequentChanges(result.pattern)

\* C11 amended: for a list of at least two periods the pattern is "Stable",
\* "Upward" or "Varied", optionally followed by ", Frequent changes"; for the
\* empty list and a list of one period it is "Insufficient data", with
\* hasProgression false.
C11_PatternValues ==
    pc = "progression" =>
        IF Len(periods) <= 1
        THEN result.pattern = "Insufficient data" /\ result.hasProgression = FALSE
        ELSE result.pattern \in BasePatterns \/ FrequentChanges(result.pattern)

\* a single period, reported as insufficient data
C11_Witness ==
    /\ pc = "progression"
    /\ Len(periods) = 1
    /\ result.pattern = "Insufficient data"

\* C18: a title whose only seniority keyword is "junior" has level 1, so the
\* move from "junior" (2016) to "developer" (2018) is one increase: "Upward",
\* hasProgression true.
C18_JuniorIsLevelOne ==
    (pc = "progression"
        /\ periods = <<Job(2016, 24, LcJunior), Job(2018, 24, LcDeveloper)>>) =>
        /\ LevelScore(LcJunior) = 1
        /\ result.pattern = "Upward"
        /\ result.hasProgression = TRUE

\* C19: the title "director" has level 6, below "vp" (7), so the move from
\* "director" (2016) to "vp" (2018) is an increase and not a decrease: "Upward",
\* hasProgression true.
C19_DirectorBelowVp ==
    (pc = "progression"
        /\ periods = <<Job(2016, 24, LcDirector), Job(2018, 24, LcVp)>>) =>
        /\ LevelScore(LcDirector) = 6
        /\ result.pattern = "Upward"
        /\ result.hasProgression = TRUE

\* the titled periods of ps, by index
Titled(ps) == {i \in 1..Len(ps) : ps[i].jobTitle # NoTitle}

\* i comes before j chronologically: earlier start, or the same start and
\* earlier in the list
Before(ps, i, j) ==
    \/ ps[i].startDate < ps[j].startDate
    \/ ps[i].startDate = ps[j].startDate /\ i < j

\* the pairs of consecutive titled periods
Consecutive(ps) ==
    {ij \in Titled(ps) \X Titled(ps) :
        /\ Before(ps, ij[1], ij[2])
        /\ ~\E k \in Titled(ps) : Before(ps, ij[1], k) /\ Before(ps, k, ij[2])}

LevelUps(ps) ==
    Cardinality({ij \in Consecutive(ps) :
        LevelScore(ps[ij[2]].jobTitle) > LevelScore(ps[ij[1]].jobTitle)})

LevelDowns(ps) ==
    Cardinality({ij \in Consecutive(ps) :
        LevelScore(ps[ij[2]].jobTitle) < LevelScore(ps[ij[1]].jobTitle)})

BasePattern(pattern) ==
    CASE pattern \in {"Upward", "Upward, Frequent changes"} -> "Upward"
      [] pattern \in {"Varied", "Varied, Frequent changes"} -> "Varied"
      [] pattern \in {"Stable", "Stable, Frequent changes"} -> "Stable"
      [] OTHER -> "none"

\* C20: for a list of at least two periods the base pattern is "Upward" when
\* the titled periods, in order of start date, show more level increases than
\* decreases between consecutive ones, "Varied" when more decreases, "Stable"
\* otherwise; hasProgression is true exactly for "Upward"; with fewer than two
\* titled periods the base pattern is "Stable" and hasProgression false.
C20_ProgressionRule ==
    (pc = "progression" /\ Len(periods) >= 2) =>
        /\ BasePattern(result.pattern) =
              IF Cardinality(Titled(periods)) < 2 THEN "Stable"
              ELSE IF LevelUps(periods) > LevelDowns(periods) THEN "Upward"
              ELSE IF LevelDowns(periods) > LevelUps(periods) THEN "Varied"
              ELSE "Stable"
        /\ result.hasProgression <=> BasePattern(result.pattern) = "Upward"

\* three titled periods given out of chronological order, two increases
C20_Witness ==
    /\ pc = "progression"
    /\ Len(periods) = 3
    /\ Titled(periods) = {1, 2, 3}
    /\ periods[1].startDate > periods[2].startDate
    /\ LevelUps(periods) = 1 /\ LevelDowns(periods) = 0
    /\ result.pattern = "Upward"

-----------------------------------------------------------------------------
(* Resume text                                                             *)
(*                                                                         *)
(* A resume is a sequence of lines.  A line is a work-experience heading,  *)
(* the heading of another section, a blank line, a bullet, a structured    *)
(* job entry ("Title | Company | Dates", "Title at Company (Dates)",       *)
(* "Title, Company, Dates") or prose.  A line holds at most one date       *)
(* fragment, and carries what the scans of the window around that fragment *)
(* find: the title and company inferred from it, and whether it holds      *)
(* education vocabulary.  Company names are ordinary words.                *)
(***************************************************************************)

NoDate == [form |-> "none"]

\* "MM/YYYY - MM/YYYY"
NumericRange(sy, sm, ey, em) ==
    [form |-> "numeric", sy |-> sy, sm |-> sm, ey |-> ey, em |-> em, present |-> FALSE]

\* "Month YYYY - Month YYYY"
MonthRange(sy, sm, ey, em) ==
    [form |-> "month", sy |-> sy, sm |-> sm, ey |-> ey, em |-> em, present |-> FALSE]

\* "Month YYYY - Present"
MonthToPresent(sy, sm) ==
    [form |-> "month", sy |-> sy, sm |-> sm, ey |-> sy, em |-> sm, present |-> TRUE]

\* "YYYY - YYYY"
YearRange(sy, ey) ==
    [form |-> "year", sy |-> sy, sm |-> 1, ey |-> ey, em |-> 12, present |-> FALSE]

\* "YYYY - Present"
YearToPresent(sy) ==
    [form |-> "year", sy |-> sy, sm |-> 1, ey |-> sy, em |-> 12, present |-> TRUE]

\* "from Month YYYY to Month YYYY"
SentenceRange(sy, sm, ey, em) ==
    [form |-> "sentence", sy |-> sy, sm |-> sm, ey |-> ey, em |-> em, present |-> FALSE]

Heading == [kind |-> "heading", date |-> NoDate]

SectionHeading == [kind |-> "section", date |-> NoDate]

Blank == [kind |-> "blank", date |-> NoDate]

Bullet == [kind |-> "bullet", date |-> NoDate]

\* a structured line; ctxTitle and ctxCompany are what the context scans infer
Entry(format, position, company, date, ctxTitle) ==
    [kind |-> "entry", format |-> format, position |-> position, company |-> company,
     date |-> date, ctxTitle |-> ctxTitle, ctxCompany |-> company, edu |-> FALSE]

Prose(date, ctxTitle, ctxCompany, edu) ==
    [kind |-> "prose", date |-> date, ctxTitle |-> ctxTitle, ctxCompany |-> ctxCompany,
     edu |-> edu]

\* the month in which the analysis runs
CurrentMonth == Month(2026, 11)

-----------------------------------------------------------------------------
(* The work-experience section *)

HeadingLines(lines) == {i \in 1..Len(lines) : lines[i].kind = "heading"}

\* the first line after the heading that is not blank: [:\s]+ consumes the blank
\* lines between the heading and it
FirstContent(lines, h) ==
    LET after == {i \in (h+1)..Len(lines) : lines[i].kind # "blank"}
    IN  IF after = {} THEN 0 ELSE CHOOSE i \in after : \A j \in after : i <= j

\* the lookahead: another section's heading, or a blank line
EndsSection(line) == line.kind \in {"section", "blank"}

\* the last line of the section that begins at line c; the line c itself is
\* always part of it ([\s\S]+? takes at least one character)
LastContent(lines, c) ==
    LET stops == {i \in (c+1)..Len(lines) : EndsSection(lines[i])}
    IN  IF stops = {} THEN Len(lines) ELSE (CHOOSE i \in stops : \A j \in stops : i <= j) - 1

\* text.match(/(?:work\s+experience|...)[:\s]+([\s\S]+?)(?=education|...|\n\s*\n|$)/i):
\* found tells whether it matched, lines is the captured section
WorkSection(lines) ==
    IF HeadingLines(lines) = {} THEN [found |-> FALSE, lines |-> <<>>]
    ELSE LET h == CHOOSE i \in HeadingLines(lines) : \A j \in HeadingLines(lines) : i <= j
             c == FirstContent(lines, h)
         IN  IF c # 0 THEN [found |-> TRUE, lines |-> SubSeq(lines, c, LastContent(lines, c))]
             ELSE IF h < Len(lines) THEN [found |-> TRUE, lines |-> <<>>]
             ELSE [found |-> FALSE, lines |-> <<>>]

-----------------------------------------------------------------------------
(* parseEmploymentEntry, extractStructuredEmploymentEntries *)

\* the k-th clock read of a run whose clock advances after the split-th read
NowAt(k, split) == Now(CurrentMonth, IF k <= split THEN 1 ELSE 2)

\* dateRange.match(...): a month-name or MM/YYYY start, a separator of dashes and
\* the letters t, o, and a month-name, MM/YYYY, present or current end
DateMatch(date) == date.form \in {"numeric", "month", "sentence"}

\* new Date(parseInt(year), parseInt(month) - 1), new Date(year, getMonthIndex(name))
StartOf(date) == NewDate(Month(date.sy, date.sm))

EndOf(date, now) == IF date.present THEN now ELSE NewDate(Month(date.ey, date.em))

parseEmploymentEntryUnchecked(position, company, date, now) ==
    IF ~DateMatch(date) THEN <<>>
    ELSE <<Period(StartOf(date), EndOf(date, now), position, company)>>

\* the entry, or no entry (null), as a sequence of at most one period
parseEmploymentEntry(position, company, date, now) ==
    IF ~DateMatch(date) THEN <<>>
    ELSE IF StartOf(date) > EndOf(date, now) THEN <<>>
    ELSE <<Period(StartOf(date), EndOf(date, now), position, company)>>

\* the loop over the lines left at the first line that gives no entry
extractStructuredUntilFailure(lines, split) ==
    LET workSection == WorkSection(lines)
        workLines == workSection.lines
        entryAt(i) == IF workLines[i].kind = "entry"
                      THEN parseEmploymentEntry(workLines[i].position, workLines[i].company,
                                                workLines[i].date, NowAt(i, split))
                      ELSE <<>>
        failed == {i \in 1..Len(workLines) : workLines[i].kind = "entry" /\ entryAt(i) = <<>>}
    IN  IF ~workSection.found THEN <<>>
        ELSE Flatten([i \in 1..Len(workLines) |->
                 IF \E j \in failed : j <= i THEN <<>> ELSE entryAt(i)])

extractStructuredEmploymentEntries(lines, split) ==
    LET workSection == WorkSection(lines)
        workLines == workSection.lines
    IN  IF ~workSection.found THEN <<>>
        ELSE Flatten([i \in 1..Len(workLines) |->
                 IF workLines[i].kind = "entry"
                 THEN parseEmploymentEntry(workLines[i].position, workLines[i].company,
                                           workLines[i].date, NowAt(i, split))
                 ELSE <<>>])

-----------------------------------------------------------------------------
(* analyzeEmploymentHistory: the date-pattern scan *)

\* whether datePatterns[k] matches in the fragment: the bare-year pattern also
\* matches the "YYYY - present" tail of a fragment of another form, the
\* month-name pattern also matches inside the sentence form
PatternMatches(k, date) ==
    CASE k = 1 -> date.form = "numeric"
      [] k = 2 -> date.form \in {"month", "sentence"}
      [] k = 3 -> \/ date.form = "year"
                  \/ date.form \in {"numeric", "month", "sentence"} /\ date.present
      [] k = 4 -> date.form = "sentence"

MatchStart(k, date) ==
    IF k = 3 THEN NewDate(Month(date.sy, 1)) ELSE NewDate(Month(date.sy, date.sm))

MatchEnd(k, date, now) ==
    IF date.present THEN now
    ELSE IF k = 3 THEN NewDate(Month(date.ey, 12))
    ELSE NewDate(Month(date.ey, date.em))

\* the matches of all four patterns, pattern by pattern, each in text order
Matches(lines) ==
    Flatten([k \in 1..4 |->
        SelectSeq([i \in 1..Len(lines) |-> [pattern |-> k, line |-> lines[i]]],
                  LAMBDA m : m.line.date.form # "none"
                             /\ PatternMatches(m.pattern, m.line.date))])

KeepsMatchAlways(isEducation, workSectionFound) == TRUE

\* the education filter applied inside a located work section too
KeepsMatchOutsideEducation(isEducation, workSectionFound) == ~isEducation

\* !isEducation || workSection
KeepsMatch(isEducation, workSectionFound) == ~isEducation \/ workSectionFound

ScanDatePatterns(textToSearch, workSectionFound, split) ==
    LET matches == Matches(textToSearch)
    IN  Flatten([n \in 1..Len(matches) |->
            LET date == matches[n].line.date
                startDate == MatchStart(matches[n].pattern, date)
                endDate == MatchEnd(matches[n].pattern, date, NowAt(n, split))
            IN  IF startDate <= endDate
                   /\ KeepsMatch(matches[n].line.edu, workSectionFound)
                THEN <<Period(startDate, endDate,
                              matches[n].line.ctxTitle, matches[n].line.ctxCompany)>>
                ELSE <<>>])

\* the scan run whether or not structured entries were found
ExtractStructuredAndScanned(lines, split) ==
    extractStructuredEmploymentEntries(lines, split)
        \o ScanDatePatterns(IF WorkSection(lines).found THEN WorkSection(lines).lines ELSE lines,
                            WorkSection(lines).found, split)

\* employmentPeriods before deduplication
ExtractEmploymentPeriods(lines, split) ==
    LET structured == extractStructuredEmploymentEntries(lines, split)
        workSection == WorkSection(lines)
    IN  IF Len(structured) # 0 THEN structured
        ELSE ScanDatePatterns(IF workSection.found THEN workSection.lines ELSE lines,
                              workSection.found, split)

-----------------------------------------------------------------------------
(* analyzeEmploymentHistory on every bounded resume *)

MaxLines == 3

ResumeLines ==
    {Heading, SectionHeading, Blank, Bullet,
     Entry("pipe", JuniorDeveloper, "CompanyA", MonthRange(2024, 1, 2025, 6), LcJunior),
     Entry("pipe", SeniorDeveloper, "CompanyA", MonthToPresent(2025, 6), LcSenior),
     Entry("comma", UcDeveloper, "CompanyB", YearRange(2020, 2023), NoTitle),
     Prose(YearRange(2020, 2023), NoTitle, NoCompany, FALSE),
     Prose(YearRange(2020, 2023), NoTitle, NoCompany, TRUE),
     Prose(MonthToPresent(2025, 6), LcSenior, "CompanyA", FALSE),
     Prose(YearRange(2025, 2024), NoTitle, NoCompany, FALSE),
     Prose(NumericRange(2024, 1, 2025, 6), LcLead, NoCompany, TRUE),
     Entry("pipe", UcDeveloper, "CompanyB", MonthRange(2025, 6, 2024, 1), NoTitle),
     Prose(MonthToPresent(2026, 12), NoTitle, NoCompany, FALSE)}

LeadEntry == Entry("pipe", LcLead, "CompanyA", MonthRange(2024, 1, 2025, 6), LcLead)

JuniorEntry == Entry("pipe", LcJunior, "CompanyB", MonthRange(2020, 1, 2023, 6), LcJunior)

\* a work-experience section of three lines under its heading: job lines, one
\* without a date, one with month 13, a bare-year one, and blank lines
SectionLines ==
    {Blank, LeadEntry, JuniorEntry,
     Entry("pipe", UcDeveloper, "CompanyB", NoDate, NoTitle),
     Entry("pipe", LcSenior, "CompanyB", NumericRange(2020, 13, 2021, 6), LcSenior),
     Entry("at", LcManager, "CompanyB", YearToPresent(2020), LcManager)}

SectionTexts == {<<Heading, a, b, c>> : a \in SectionLines, b \in SectionLines, c \in SectionLines}

InitHistory ==
    /\ pc = "input"
    /\ text \in ListsOver(ResumeLines, MaxLines) \cup SectionTexts
    /\ periods = <<>>
    /\ result = NoResult
    /\ NotRun

AnalyzeEmploymentHistory ==
    /\ pc = "input"
    /\ \E split \in 0..(2 * Len(text)) :
          /\ periods' = ExtractEmploymentPeriods(text, split)
          /\ result' = Chronology(periods')
    /\ pc' = "done"
    /\ UNCHANGED <<text, jobDescription, embedding, output>>

NextHistory == AnalyzeEmploymentHistory

SpecHistory == InitHistory /\ [][NextHistory]_vars

-----------------------------------------------------------------------------
(* Claims on analyzeEmploymentHistory *)

NoHeading(lines) == \A i \in 1..Len(lines) : lines[i].kind # "heading"

HasDateRange(lines) == \E i \in 1..Len(lines) : lines[i].date.form # "none"

NoChronology(r) ==
    /\ r.employmentPeriods = <<>>
    /\ r.totalExperience = 0
    /\ r.totalExperienceYears = 0
    /\ r.careerGaps = <<>>

EveryMatchRejected(lines) ==
    \A n \in 1..Len(Matches(lines)) :
        LET m == Matches(lines)[n]
        IN  \/ m.line.edu
            \/ \A c \in {1, 2} :
                  MatchStart(m.pattern, m.line.date)
                      > MatchEnd(m.pattern, m.line.date, Now(CurrentMonth, c))

FullYear(d) == MonthIndex(d) \div 12

MonthOfYear(d) == MonthIndex(d) % 12

ClockReads == {Now(CurrentMonth, 1), Now(CurrentMonth, 2)}

\* the (start, end) pairs a line can be read as: by parseEmploymentEntry when
\* the line is a structured entry, by each date pattern that matches it
Readings(line) ==
    {<<StartOf(line.date), EndOf(line.date, now)>> :
        now \in {n \in ClockReads : line.kind = "entry" /\ DateMatch(line.date)}}
    \cup
    {<<MatchStart(kn[1], line.date), MatchEnd(kn[1], line.date, kn[2])>> :
        kn \in {x \in (1..4) \X ClockReads :
                  line.date.form # "none" /\ PatternMatches(x[1], line.date)}}

ValidReadings(lines) ==
    {r \in UNION {Readings(lines[i]) : i \in 1..Len(lines)} : r[1] <= r[2]}

\* C15: every extracted period has startDate <= endDate and a duration equal to
\* (endYear - startYear) * 12 + (endMonth - startMonth), which is >= 0; every
\* period is a reading of a date fragment whose start is not after its end, so
\* an inverted reading gives no period; an end written as present is the clock
\* at parsing.
C15_ExtractedPeriodsAreValid ==
    pc = "done" =>
        \A i \in 1..Len(periods) :
            LET p == periods[i]
            IN  /\ p.startDate <= p.endDate
                /\ p.duration = (FullYear(p.endDate) - FullYear(p.startDate)) * 12
                                 + (MonthOfYear(p.endDate) - MonthOfYear(p.startDate))
                /\ p.duration >= 0
                /\ <<p.startDate, p.endDate>> \in ValidReadings(text)
                /\ p.endDate % 3 # 0 => p.endDate \in ClockReads

\* a structured entry with an inverted date range next to one ending at present:
\* one period only, ending at the clock
C15_Witness ==
    /\ pc = "done"
    /\ \E i \in 1..Len(text) :
          /\ text[i].kind = "entry"
          /\ DateMatch(text[i].date)
          /\ StartOf(text[i].date) > EndOf(text[i].date, Now(CurrentMonth, 1))
    /\ Len(periods) = 1
    /\ periods[1].endDate \in ClockReads

\* the first section heading after the first work-experience heading, or the
\* line after the last
NextSection(lines) ==
    LET h == CHOOSE i \in HeadingLines(lines) : \A j \in HeadingLines(lines) : i <= j
        stops == {i \in (h + 1)..Len(lines) : lines[i].kind = "section"}
    IN  IF stops = {} THEN Len(lines) + 1
        ELSE CHOOSE i \in stops : \A j \in stops : i <= j

\* the job lines with a valid month-name or numeric date range, months 1 to 12,
\* between the heading and the next section heading
JobLinesOfSection(lines) ==
    LET h == CHOOSE i \in HeadingLines(lines) : \A j \in HeadingLines(lines) : i <= j
    IN  {i \in (h + 1)..(NextSection(lines) - 1) :
            /\ lines[i].kind = "entry"
            /\ DateMatch(lines[i].date)
            /\ lines[i].date.sm \in 1..12 /\ lines[i].date.em \in 1..12
            /\ StartOf(lines[i].date) <= EndOf(lines[i].date, Now(CurrentMonth, 1))}

\* C22: the work-experience section runs from the heading to the next section
\* heading or the end of the text, so every structured job line in between gives
\* a period, a job line after a blank line included.
C22_SectionRunsToNextHeading ==
    (pc = "done" /\ HeadingLines(text) # {}) =>
        \A i \in JobLinesOfSection(text) :
            \E k \in 1..Len(periods) :
                /\ periods[k].jobTitle = text[i].position
                /\ periods[k].company = text[i].company
                /\ periods[k].startDate = StartOf(text[i].date)

\* the lines of the located work section that parseEmploymentEntry turns into
\* an entry
StructuredLines(lines) ==
    {i \in 1..Len(WorkSection(lines).lines) :
        /\ WorkSection(lines).lines[i].kind = "entry"
        /\ DateMatch(WorkSection(lines).lines[i].date)
        /\ StartOf(WorkSection(lines).lines[i].date)
              <= EndOf(WorkSection(lines).lines[i].date, Now(CurrentMonth, 1))}

\* the text the scan searches, and the matches it keeps
TextToSearch(lines) == IF WorkSection(lines).found THEN WorkSection(lines).lines ELSE lines

KeptMatches(lines) ==
    {n \in 1..Len(Matches(TextToSearch(lines))) :
        LET m == Matches(TextToSearch(lines))[n]
        IN  /\ MatchStart(m.pattern, m.line.date)
                  <= MatchEnd(m.pattern, m.line.date, Now(CurrentMonth, 1))
            /\ ~m.line.edu \/ WorkSection(lines).found}

\* C23: the date-pattern scan runs exactly when structured extraction gave no
\* entry: with a structured entry the periods handed to the deduplication are the
\* structured entries, one per parsed line and nothing else; without one they
\* are the matches the scan keeps.
C23_FallbackOnlyWithoutStructured ==
    pc = "done" =>
        IF WorkSection(text).found /\ StructuredLines(text) # {}
        THEN /\ Len(periods) = Cardinality(StructuredLines(text))
             /\ \A k \in 1..Len(periods) :
                   \E i \in StructuredLines(text) :
                       /\ periods[k].jobTitle = WorkSection(text).lines[i].position
                       /\ periods[k].company = WorkSection(text).lines[i].company
                       /\ periods[k].startDate = StartOf(WorkSection(text).lines[i].date)
        ELSE Len(periods) = Cardinality(KeptMatches(text))

\* a structured entry next to a dated prose line of the same section: the prose
\* line gives no period
C23_Witness ==
    /\ pc = "done"
    /\ WorkSection(text).found
    /\ Cardinality(StructuredLines(text)) = 1
    /\ \E i \in 1..Len(WorkSection(text).lines) :
          /\ WorkSection(text).lines[i].kind = "prose"
          /\ WorkSection(text).lines[i].date.form = "year"
          /\ ~WorkSection(text).lines[i].edu
          /\ WorkSection(text).lines[i].date.sy <= WorkSection(text).lines[i].date.ey
    /\ Len(periods) = 1

\* the matches with valid dates among ms, and those of them whose context
\* window holds education vocabulary
ValidMatches(ms) ==
    {n \in 1..Len(ms) :
        MatchStart(ms[n].pattern, ms[n].line.date)
            <= MatchEnd(ms[n].pattern, ms[n].line.date, Now(CurrentMonth, 1))}

EducationMatches(ms) == {n \in ValidMatches(ms) : ms[n].line.edu}

\* C24: in the fallback scan a match with education vocabulary in its context
\* window gives no period when no work-experience section was located, and gives
\* a period, its dates being valid, when one was located.
C24_EducationFilter ==
    (pc = "done" /\ ~(WorkSection(text).found /\ StructuredLines(text) # {})) =>
        LET ms == Matches(TextToSearch(text))
            valid == ValidMatches(ms)
            kept == valid \ EducationMatches(ms)
        IN  IF WorkSection(text).found
            THEN Len(periods) = Cardinality(valid)
            ELSE /\ Len(periods) = Cardinality(kept)
                 /\ \A k \in 1..Len(periods) :
                       \E n \in kept :
                           /\ periods[k].startDate = MatchStart(ms[n].pattern, ms[n].line.date)
                           /\ periods[k].jobTitle = ms[n].line.ctxTitle

\* a located work section whose only dated line has education vocabulary around
\* it: the scan keeps it
C24_Witness ==
    /\ pc = "done"
    /\ WorkSection(text).found
    /\ StructuredLines(text) = {}
    /\ EducationMatches(Matches(TextToSearch(text))) # {}
    /\ EducationMatches(Matches(TextToSearch(text))) = ValidMatches(Matches(TextToSearch(text)))
    /\ Len(periods) = Cardinality(ValidMatches(Matches(TextToSearch(text))))

\* C25: a structured line of the work section whose date fragment is a bare-year
\* range gives a period from January of the start year to December of the end
\* year, or to now.
C25_BareYearStructuredLine ==
    (pc = "done" /\ WorkSection(text).found) =>
        \A i \in 1..Len(WorkSection(text).lines) :
            LET line == WorkSection(text).lines[i]
            IN  (line.kind = "entry" /\ line.date.form = "year" /\ line.date.sy <= line.date.ey) =>
                    \E k \in 1..Len(periods) :
                        /\ periods[k].startDate = NewDate(Month(line.date.sy, 1))
                        /\ periods[k].endDate \in
                              IF line.date.present THEN ClockReads
                              ELSE {NewDate(Month(line.date.ey, 12))}

\* the lines of the searched text that hold a date-range fragment
DatedLines(lines) == {i \in 1..Len(lines) : lines[i].date.form # "none"}

\* C26: the first date form that matches a fragment wins: one date-range
\* fragment gives at most one candidate period, so there are at most as many
\* periods before the deduplication as fragments in the searched text.
C26_OneCandidatePerFragment ==
    pc = "done" => Len(periods) <= Cardinality(DatedLines(TextToSearch(text)))

\* C30: a numeric MM/YYYY date with a month number outside 1..12 gives no
\* period: every period before the deduplication starts and ends in the months
\* written in a date fragment of the resume whose month numbers are in 1..12,
\* "present" read as a clock reading; no month rolls over into another year.
C30_MonthsAsWritten ==
    pc = "done" =>
        \A k \in 1..Len(periods) :
            \E i \in DatedLines(text) :
                LET date == text[i].date
                IN  /\ date.sm \in 1..12
                    /\ date.em \in 1..12
                    /\ periods[k].startDate = NewDate(Month(date.sy, date.sm))
                    /\ periods[k].endDate \in
                          IF date.present THEN ClockReads
                          ELSE {NewDate(Month(date.ey, date.em))}

\* the job lines of the located section that give no entry: no date range, or
\* an inverted one
SkippedLines(lines) ==
    {i \in 1..Len(WorkSection(lines).lines) :
        LET line == WorkSection(lines).lines[i]
        IN  /\ line.kind = "entry"
            /\ \/ line.date.form = "none"
               \/ DateMatch(line.date)
                  /\ StartOf(line.date) > EndOf(line.date, Now(CurrentMonth, 1))}

\* C28: a job line whose date part matches no pattern or is inverted gives no
\* entry, and the other lines are unaffected: every job line of the section
\* that parses has its period, and when the scan runs every match it keeps has
\* its period; the analysis ends with a report in either case.
C28_SkippedLinesLeaveOthers ==
    pc = "done" =>
        /\ result # NoResult
        /\ IF WorkSection(text).found /\ StructuredLines(text) # {}
           THEN \A i \in StructuredLines(text) :
                    \E k \in 1..Len(periods) :
                        LET line == WorkSection(text).lines[i]
                        IN  /\ periods[k].jobTitle = line.position
                            /\ periods[k].company = line.company
                            /\ periods[k].startDate = StartOf(line.date)
                            /\ periods[k].endDate \in
                                  {EndOf(line.date, now) : now \in ClockReads}
           ELSE LET ms == Matches(TextToSearch(text))
                IN  \A n \in KeptMatches(text) :
                        \E k \in 1..Len(periods) :
                            /\ periods[k].jobTitle = ms[n].line.ctxTitle
                            /\ periods[k].startDate = MatchStart(ms[n].pattern, ms[n].line.date)

\* a job line without a date range ahead of one that parses: one period
C28_Witness ==
    /\ pc = "done"
    /\ WorkSection(text).found
    /\ \E i \in SkippedLines(text), j \in StructuredLines(text) : i < j
    /\ Len(periods) = Cardinality(StructuredLines(text))

-----------------------------------------------------------------------------
(* computeATSScore: input validation, embeddings, sub-scores *)

\* a text is a sequence of lines; text.trim() === "" when every line is blank
validateInputAcceptsBlank(lines) == Len(lines) # 0

\* !text || text.trim() === "" gives false
validateInput(lines) ==
    ~(Len(lines) = 0 \/ \A i \in 1..Len(lines) : lines[i].kind = "blank")

\* console.log, console.error
Log(event, value) == [event |-> event, value |-> value]

\* getEmbedding: the vector of the response, or null when the request throws
Pending == [state |-> "pending"]

Failed == [state |-> "null"]

Fetched(vector) == [state |-> "vector", vector |-> vector]

\* !resumeEmbedding || !jdEmbedding
EmbeddingMissing(e) == e.resume = Failed \/ e.jd = Failed

Dot(vec1, vec2) ==
    LET RECURSIVE sum(_)
        sum(i) == IF i = 0 THEN 0 ELSE vec1[i] * vec2[i] + sum(i - 1)
    IN  sum(Len(vec1))

\* math.norm, on the vectors whose norm is a whole number
Norm(vec) == CHOOSE n \in 0..Dot(vec, vec) : n * n = Dot(vec, vec)

\* cosineSimilarity(vec1, vec2) * 100
semanticSimilarity(vec1, vec2) == (100 * Dot(vec1, vec2)) \div (Norm(vec1) * Norm(vec2))

\* (matchedKeywords.length / uniqueJdKeywords.length) * 100
calculateKeywordMatch(matched, unique) == (100 * matched) \div unique

\* the weight of one job-description skill: absent from the resume, or present
\* at a proficiency level
SkillWeight(level) ==
    CASE level = "absent" -> 0
      [] level = "expert" -> 100
      [] level = "intermediate" -> 80
      [] level = "beginner" -> 40
      [] OTHER -> 60

\* (weightedSkillScore / totalPossibleScore) * 100, or 0 without required skills
skillsMatchScore(levels) ==
    LET RECURSIVE weighted(_)
        weighted(i) == IF i = 0 THEN 0 ELSE SkillWeight(levels[i]) + weighted(i - 1)
    IN  IF Len(levels) > 0 THEN weighted(Len(levels)) \div Len(levels) ELSE 0

educationScore(hasDegree, relevantField) ==
    IF hasDegree THEN (IF relevantField THEN 100 ELSE 50) ELSE 0

experienceScore(requiredExperience, candidateExperience) ==
    IF requiredExperience > 0 /\ candidateExperience > 0
    THEN IF candidateExperience >= requiredExperience THEN 100
         ELSE (100 * candidateExperience) \div requiredExperience
    ELSE IF requiredExperience = 0 THEN 100 ELSE 0

softSkillsScore(found, required) ==
    IF required > 0 THEN (100 * found) \div required ELSE 100

titleScore(titlesMatch) == IF titlesMatch THEN 100 ELSE 50

\* the weighted final score, in hundredths of a percent point
finalScore(semantic, keyword, skills, education, experience, soft, title) ==
    35 * semantic + 20 * keyword + 20 * skills
        + 10 * education + 5 * experience + 5 * soft + 5 * title

-----------------------------------------------------------------------------
(* computeATSScore: the chronology step *)

\* the heading written "WORK EXPERIENCE:", and the heading "EDUCATION:"
WorkExperienceHeading == [kind |-> "heading", date |-> NoDate, literal |-> "WORK EXPERIENCE:"]

EducationHeading == [kind |-> "section", date |-> NoDate, literal |-> "EDUCATION:"]

\* candidateResume.includes("WORK EXPERIENCE:")
IncludesWorkExperience(lines) == \E i \in 1..Len(lines) : lines[i] = WorkExperienceHeading

\* workRegex: the lines between the first "WORK EXPERIENCE:" and the next "EDUCATION:"
SampleWorkSection(lines) ==
    LET starts == {i \in 1..Len(lines) : lines[i] = WorkExperienceHeading}
        first == CHOOSE i \in starts : \A j \in starts : i <= j
        stops == {i \in 1..Len(lines) : i > first /\ lines[i] = EducationHeading}
        stop == CHOOSE i \in stops : \A j \in stops : i <= j
    IN  IF starts = {} THEN <<>>
        ELSE IF stops = {} THEN <<>>
        ELSE SubSeq(lines, first + 1, stop - 1)

\* dateRegex: Month YYYY, a separator, Present, Current or Month YYYY
SampleDateMatch(date) == date.form \in {"month", "sentence"}

testExtractionWithSampleResume(lines, split) ==
    LET workLines == SampleWorkSection(lines)
        entries == Flatten([i \in 1..Len(workLines) |->
            IF /\ workLines[i].kind = "entry"
               /\ workLines[i].format = "pipe"
               /\ SampleDateMatch(workLines[i].date)
               /\ StartOf(workLines[i].date) <= EndOf(workLines[i].date, NowAt(i, split))
            THEN <<Period(StartOf(workLines[i].date),
                          EndOf(workLines[i].date, NowAt(i, split)),
                          workLines[i].position, workLines[i].company)>>
            ELSE <<>>])
    IN  ByStartDateDescending(entries)

analyzeEmploymentHistory(lines, split) == Chronology(ExtractEmploymentPeriods(lines, split))

\* employmentAnalysis of computeATSScore
EmploymentAnalysis(lines, split) ==
    LET extractedEntries == testExtractionWithSampleResume(lines, split)
        chronologicalEntries == ByStartDate(extractedEntries)
        totalExperience == calculateTotalExperience(chronologicalEntries)
    IN  IF IncludesWorkExperience(lines) /\ Len(extractedEntries) > 0
        THEN [employmentPeriods |-> extractedEntries,
              totalExperience |-> totalExperience,
              totalExperienceYears |-> TotalExperienceTenths(totalExperience),
              careerGaps |-> identifyCareerGaps(chronologicalEntries),
              careerProgression |-> analyzeCareerProgression(chronologicalEntries)]
        ELSE analyzeEmploymentHistory(lines, split)

-----------------------------------------------------------------------------
(* computeATSScore, step by step between its two awaits *)

\* the embedding service answers with a vector, or the request throws
EmbeddingVectors == {<<1, 0>>, <<0, 1>>, <<-2, 0>>}

EmbeddingOutcomes == {Failed} \cup {Fetched(v) : v \in EmbeddingVectors}

\* what the keyword, skill, education, experience, soft-skill and title
\* extractors find in the two texts
TextFindings ==
    [keywords : {<<0, 1>>, <<1, 2>>, <<1, 1>>},
     skills : {<<>>, <<"absent">>, <<"beginner">>, <<"expert">>},
     education : {<<FALSE, FALSE>>, <<TRUE, FALSE>>, <<TRUE, TRUE>>},
     experience : {<<0, 0>>, <<4, 0>>, <<4, 2>>},
     softSkills : {<<0, 0>>, <<0, 1>>, <<1, 1>>},
     titlesMatch : BOOLEAN]

SubScores(e, f) ==
    [semantic |-> semanticSimilarity(e.resume.vector, e.jd.vector),
     keyword |-> calculateKeywordMatch(f.keywords[1], f.keywords[2]),
     skills |-> skillsMatchScore(f.skills),
     education |-> educationScore(f.education[1], f.education[2]),
     experience |-> experienceScore(f.experience[1], f.experience[2]),
     soft |-> softSkillsScore(f.softSkills[1], f.softSkills[2]),
     title |-> titleScore(f.titlesMatch)]

FinalScoreOf(sub) ==
    finalScore(sub.semantic, sub.keyword, sub.skills, sub.education,
               sub.experience, sub.soft, sub.title)

\* the validation fails: one error is reported and the run returns
RejectInput ==
    /\ pc = "start"
    /\ ~validateInput(jobDescription) \/ ~validateInput(text)
    /\ output' = <<Log("error", IF ~validateInput(jobDescription)
                                THEN "Job Description is empty" ELSE "Resume is empty")>>
    /\ pc' = "returned"
    /\ UNCHANGED <<text, periods, result, jobDescription, embedding>>

\* the validation passes: the resume embedding is requested and awaited
RequestResumeEmbedding ==
    /\ pc = "start"
    /\ validateInput(jobDescription) /\ validateInput(text)
    /\ embedding' = [embedding EXCEPT !.resume = Pending]
    /\ output' = <<Log("request", "resume")>>
    /\ pc' = "awaitResume"
    /\ UNCHANGED <<text, periods, result, jobDescription>>

\* the resume embedding arrives or fails; the job-description embedding is
\* requested in either case
RequestJdEmbedding ==
    /\ pc = "awaitResume"
    /\ \E outcome \in EmbeddingOutcomes :
          /\ embedding' = [resume |-> outcome, jd |-> Pending]
          /\ output' = output
                \o (IF outcome = Failed THEN <<Log("error", "Error fetching embeddings")>>
                    ELSE <<>>)
                \o <<Log("request", "jd")>>
    /\ pc' = "awaitJd"
    /\ UNCHANGED <<text, periods, result, jobDescription>>

\* the chronology step moved before the check of the embeddings
ExitAfterChronology ==
    /\ pc = "awaitJd"
    /\ \E outcome \in EmbeddingOutcomes, split \in 0..(2 * Len(text)) :
          /\ embedding' = [embedding EXCEPT !.jd = outcome]
          /\ EmbeddingMissing(embedding')
          /\ result' = EmploymentAnalysis(text, split)
          /\ output' = output \o <<Log("error", "Could not fetch embeddings")>>
    /\ pc' = "returned"
    /\ UNCHANGED <<text, periods, jobDescription>>

\* the check of the embeddings replaced by a semantic similarity of zero
ExitWithDegradedScore ==
    /\ pc = "awaitJd"
    /\ \E outcome \in EmbeddingOutcomes, f \in TextFindings :
          /\ embedding' = [embedding EXCEPT !.jd = outcome]
          /\ EmbeddingMissing(embedding')
          /\ output' = output
                \o <<Log("error", "Could not fetch embeddings"),
                     Log("score", finalScore(0, calculateKeywordMatch(f.keywords[1], f.keywords[2]),
                                             0, 0, 0, 0, titleScore(f.titlesMatch)))>>
    /\ pc' = "returned"
    /\ UNCHANGED <<text, periods, result, jobDescription>>

\* an embedding is missing: "Could not fetch embeddings. Exiting..."
ExitWithoutEmbeddings ==
    /\ pc = "awaitJd"
    /\ \E outcome \in EmbeddingOutcomes :
          /\ embedding' = [embedding EXCEPT !.jd = outcome]
          /\ EmbeddingMissing(embedding')
          /\ output' = output
                \o (IF outcome = Failed THEN <<Log("error", "Error fetching embeddings")>>
                    ELSE <<>>)
                \o <<Log("error", "Could not fetch embeddings")>>
    /\ pc' = "returned"
    /\ UNCHANGED <<text, periods, result, jobDescription>>

\* both embeddings are there: sub-scores, chronology, final score, report
ScoreResume ==
    /\ pc = "awaitJd"
    /\ \E vector \in EmbeddingVectors, f \in TextFindings, split \in 0..(2 * Len(text)) :
          /\ embedding' = [embedding EXCEPT !.jd = Fetched(vector)]
          /\ ~EmbeddingMissing(embedding')
          /\ result' = EmploymentAnalysis(text, split)
          /\ periods' = result'.employmentPeriods
          /\ output' = output
                \o <<Log("subscores", SubScores(embedding', f)),
                     Log("score", FinalScoreOf(SubScores(embedding', f))),
                     Log("chronology", result')>>
    /\ pc' = "done"
    /\ UNCHANGED <<text, jobDescription>>

DescriptionLine == Prose(NoDate, NoTitle, NoCompany, FALSE)

JobDescriptions == {<<>>, <<Blank>>, <<DescriptionLine>>, <<Blank, DescriptionLine>>}

Resumes ==
    {<<>>, <<Blank, Blank>>,
     <<Prose(YearRange(2020, 2023), NoTitle, NoCompany, FALSE)>>,
     <<Heading,
       Entry("pipe", LcSenior, "CompanyA", MonthToPresent(2025, 6), LcSenior)>>,
     <<WorkExperienceHeading,
       Entry("pipe", LcLead, "CompanyA", MonthRange(2024, 1, 2025, 6), LcLead),
       Blank,
       Entry("pipe", LcJunior, "CompanyB", MonthRange(2020, 1, 2023, 6), LcJunior),
       EducationHeading>>,
     <<WorkExperienceHeading,
       Entry("pipe", LcLead, "CompanyA", MonthRange(2024, 1, 2025, 6), LcLead),
       Entry("pipe", LcSenior, "CompanyA", MonthRange(2024, 3, 2024, 9), LcSenior),
       EducationHeading>>}

InitScore ==
    /\ pc = "start"
    /\ text \in Resumes
    /\ jobDescription \in JobDescriptions
    /\ periods = <<>>
    /\ result = NoResult
    /\ embedding = NoEmbeddings
    /\ output = <<>>

NextScore ==
    \/ RejectInput
    \/ RequestResumeEmbedding
    \/ RequestJdEmbedding
    \/ ExitWithoutEmbeddings
    \/ ScoreResume

SpecScore == InitScore /\ [][NextScore]_vars

-----------------------------------------------------------------------------
(* Claims on computeATSScore *)

NonBlank(lines) == \E i \in 1..Len(lines) : lines[i].kind # "blank"

Logged(event) == {i \in 1..Len(output) : output[i].event = event}

FetchFailed == embedding.resume = Failed \/ embedding.jd = Failed

\* C12 as stated: a run that passes the input validation carries out the
\* chronology computation whether or not the embedding fetches succeed.
C12_ChronologyDespiteFailure ==
    (pc \in {"returned", "done"} /\ NonBlank(jobDescription) /\ NonBlank(text)) =>
        result # NoResult

\* C12 amended: a run that passes the input validation carries out the
\* chronology computation exactly when both embedding fetches succeed; a failed
\* fetch ends the run before the chronology analysis.
C12_ChronologyOnlyWithEmbeddings ==
    (pc \in {"returned", "done"} /\ NonBlank(jobDescription) /\ NonBlank(text)) =>
        /\ result # NoResult <=> ~FetchFailed
        /\ Logged("chronology") # {} <=> ~FetchFailed
        /\ ~FetchFailed => \E split \in 0..(2 * Len(text)) :
                              result = EmploymentAnalysis(text, split)

\* valid inputs, a failed fetch, the run over, no chronology
C12_Witness ==
    /\ pc = "returned"
    /\ NonBlank(jobDescription) /\ NonBlank(text)
    /\ FetchFailed
    /\ result = NoResult

\* C13: when either embedding fetch fails the run reports the failure and ends
\* without an overall score or a sub-score.
C13_NoScoreAfterFailedFetch ==
    FetchFailed =>
        /\ Logged("score") = {} /\ Logged("subscores") = {}
        /\ Logged("error") # {}
        /\ pc \in {"awaitJd", "returned"}
        /\ pc = "awaitJd" => embedding.jd = Pending
        /\ pc = "returned" =>
              output[Len(output)] = Log("error", "Could not fetch embeddings")

\* the job-description fetch failed after the resume fetch succeeded
C13_Witness ==
    /\ pc = "returned"
    /\ embedding.resume # Failed
    /\ embedding.jd = Failed
    /\ Logged("score") = {}

\* C14: when the job description or the resume is empty or only whitespace, the
\* run reports an error and ends before any embedding request, score or
\* chronology.
C14_BlankInputAborts ==
    (~NonBlank(jobDescription) \/ ~NonBlank(text)) =>
        /\ embedding = NoEmbeddings
        /\ result = NoResult
        /\ Logged("request") = {} /\ Logged("score") = {} /\ Logged("chronology") = {}
        /\ pc \in {"start", "returned"}
        /\ pc = "returned" => Len(output) = 1 /\ output[1].event = "error"

\* a resume of blank lines only, rejected
C14_Witness ==
    /\ pc = "returned"
    /\ NonBlank(jobDescription)
    /\ Len(text) > 0 /\ ~NonBlank(text)
    /\ output = <<Log("error", "Resume is empty")>>

\* C16: in every run that reaches scoring, the overall score (in hundredths:
\* 35 semantic + 20 keyword + 20 skills + 10 education + 5 experience + 5 soft
\* skills + 5 title) lies between 0 and 100, a negative cosine included.
C16_ScoreWithinRange ==
    pc = "done" =>
        \A i \in Logged("score") : output[i].value >= 0 /\ output[i].value <= 100 * 100

\* C27: the chronology report of a run is built from the Deduplicator's output:
\* deduplicating the reported period list again removes nothing, and the total
\* experience, the gaps and the progression are those of the deduplicated list.
C27_ReportFromDeduplicatedList ==
    pc = "done" =>
        LET unique == deduplicateEmploymentPeriods(result.employmentPeriods)
        IN  /\ Range(unique) = Range(result.employmentPeriods)
            /\ result.totalExperience = calculateTotalExperience(unique)
            /\ result.careerGaps = identifyCareerGaps(unique)
            /\ result.careerProgression = analyzeCareerProgression(unique)

====
